---- MODULE Spec2Model ----
(***************************************************************************)
(* A model of the deduplication and change-detection core of ScienceBase:  *)
(*   - clean_text / clean_doi            (dashboard_app.py)                *)
(*   - count_unique_publications         (dashboard_app.py)                *)
(*   - ORCIDSmartUpdater                 (smart_orcid_updater.py)          *)
(*   - extract_publication_details       (smart_orcid_updater.py)          *)
(* Python strings are sequences of one-character strings.                  *)
(***************************************************************************)
EXTENDS Integers, Sequences, FiniteSets, TLC

VARIABLES
    frags,      \* Normalizer: the raw input, as the fragments it is built from
    oFrags,     \* Validity test: the identifier given, as its fragments
    oResult,    \* Validity test: what the call returned, <<>> before it
    nText,      \* Normalizer: result of clean_text on the raw input
    nDoi,       \* Normalizer: result of clean_doi on the raw input
    xDoi,       \* Extraction: the identifier extract_doi stores for the raw input
    records,    \* Deduplicator: the input table (publication_df), in row order
    result,     \* Deduplicator: what count_unique_publications returned
    fileExists, \* Updater: os.path.exists(self.excel_file)
    fileBytes,  \* Updater: the bytes of the dataset file, by identity
    fileData,   \* Updater: the sheets the dataset file holds
    storedHash, \* Updater: the content of last_file_hash.txt, NoHash without it
    pc,         \* Updater: where the running update stands
    dfMain,     \* Updater: df_main, the main sheet in memory
    idx,        \* Updater: the row the update loop is at
    pubs,       \* Updater: all_publication_details
    run,        \* Updater: what the running update has done so far
    hfcLog,     \* Updater: the direct has_file_changed calls made in a row
    xGroups,    \* Extraction: work_groups, the groups of a registry answer
    xDetails    \* Extraction: the publication_details returned, <<>> before the call

normVars == <<frags, nText, nDoi, xDoi>>
orcidVars == <<oFrags, oResult>>
dedupVars == <<records, result>>
extractVars == <<xGroups, xDetails>>
fileVars == <<fileExists, fileBytes, fileData>>
updVars ==
    <<fileExists, fileBytes, fileData, storedHash, pc, dfMain, idx, pubs, run, hfcLog>>
vars ==
    <<frags, nText, nDoi, xDoi, oFrags, oResult, records, result,
      fileExists, fileBytes, fileData, storedHash, pc, dfMain, idx, pubs, run, hfcLog,
      xGroups, xDetails>>

(***************************************************************************)
(* Bounds of the model.                                                    *)
(***************************************************************************)
MaxFrags == 4       \* fragments per raw string given to the normalizers
MaxOrcidFrags == 4  \* fragments per identifier given to the validity test
MaxRecords == 3     \* rows of the table given to count_unique_publications
MaxRows == 2        \* researchers in the dataset
MaxGroups == 2      \* work groups the registry returns for one researcher
MaxBytes == 2       \* distinct byte contents the dataset file can take
MaxCalls == 2       \* direct has_file_changed calls made in a row
MaxWorkGroups == 2  \* work groups of the answer given to the extraction

(***************************************************************************)
(* Python values.                                                          *)
(***************************************************************************)
\* None / NaN (what pd.isna accepts): a value that is no string of characters.
NaN == <<"<NaN>">>

\* A result slot that no call has filled yet.
Unset == <<"<unset>">>

UpperLetters == <<"A", "B", "D", "G", "I", "O", "T", "U", "X">>
LowerLetters == <<"a", "b", "d", "g", "i", "o", "t", "u", "x">>
OtherLetters == {"c", "e", "h", "k", "l", "n", "p", "r", "s", "w", "y"}
DigitChars == {"0", "1", "2", "3", "4", "5", "6", "7", "8", "9"}

\* str.lower, one character
LowerChar(c) ==
    IF \E i \in 1..Len(UpperLetters) : UpperLetters[i] = c
    THEN LowerLetters[CHOOSE i \in 1..Len(UpperLetters) : UpperLetters[i] = c]
    ELSE c

\* str.lower
Lower(s) == [i \in 1..Len(s) |-> LowerChar(s[i])]

\* \s of the re module
IsSpace(c) == c \in {" ", "\t", "\n"}

\* \w of the re module: letters, digits and the underscore
IsWord(c) ==
    \/ \E i \in 1..Len(UpperLetters) : UpperLetters[i] = c \/ LowerLetters[i] = c
    \/ c \in OtherLetters
    \/ c \in DigitChars
    \/ c = "_"

\* re.sub(r'^\s*', '', s)
RECURSIVE LStrip(_)
LStrip(s) ==
    IF s # <<>> /\ IsSpace(Head(s)) THEN LStrip(Tail(s)) ELSE s

\* re.sub(r'\s*$', '', s)
RECURSIVE RStrip(_)
RStrip(s) ==
    IF s # <<>> /\ IsSpace(s[Len(s)]) THEN RStrip(SubSeq(s, 1, Len(s) - 1)) ELSE s

\* str.strip
Strip(s) == RStrip(LStrip(s))

\* re.sub(r'\s+', ' ', s): every maximal run of whitespace becomes one space
RECURSIVE CollapseSpaces(_)
CollapseSpaces(s) ==
    IF s = <<>> THEN <<>>
    ELSE IF IsSpace(Head(s))
         THEN <<" ">> \o CollapseSpaces(LStrip(s))
         ELSE <<Head(s)>> \o CollapseSpaces(Tail(s))

\* re.sub(r'[^\w\s]', '', s)
RemovePunctuation(s) == SelectSeq(s, LAMBDA c : IsWord(c) \/ IsSpace(c))

\* s.startswith(p)
StartsWith(s, p) == Len(s) >= Len(p) /\ SubSeq(s, 1, Len(p)) = p

\* re.sub('^' + p, '', s) for a literal p
StripPrefix(s, p) == IF StartsWith(s, p) THEN SubSeq(s, Len(p) + 1, Len(s)) ELSE s

HttpsPrefix == <<"h", "t", "t", "p", "s", ":", "/", "/", "d", "o", "i", ".", "o", "r", "g", "/">>
HttpPrefix == <<"h", "t", "t", "p", ":", "/", "/", "d", "o", "i", ".", "o", "r", "g", "/">>
DoiLabel == <<"d", "o", "i", ":">>
DoiLabelUpper == <<"D", "O", "I", ":">>

\* a pattern that misses the optional s: re.sub(r'^https://doi\.org/', '', s)
StripDoiUrlHttpsOnly(s) == StripPrefix(s, HttpsPrefix)

\* re.sub(r'^https?://doi\.org/', '', s)
StripDoiUrl(s) ==
    IF StartsWith(s, HttpsPrefix) THEN StripPrefix(s, HttpsPrefix)
    ELSE StripPrefix(s, HttpPrefix)

\* s.replace(old, ''): every occurrence of old, found from left to right
RECURSIVE Replace(_, _)
Replace(s, old) ==
    IF s = <<>> THEN <<>>
    ELSE IF StartsWith(s, old) THEN Replace(SubSeq(s, Len(old) + 1, Len(s)), old)
    ELSE <<Head(s)>> \o Replace(Tail(s), old)

(***************************************************************************)
(* Normalizer                                                              *)
(***************************************************************************)
clean_text(text) ==
    IF text = NaN THEN <<>>
    ELSE RemovePunctuation(CollapseSpaces(Strip(Lower(text))))

\* a clean_doi that leaves out the two last substitutions
clean_doi_no_residual_trim(doi) ==
    IF doi = NaN \/ doi = <<>> THEN <<>>
    ELSE StripPrefix(StripDoiUrl(Strip(Lower(doi))), DoiLabel)

clean_doi(doi) ==
    IF doi = NaN \/ doi = <<>> THEN <<>>
    ELSE RStrip(LStrip(StripPrefix(StripDoiUrl(Strip(Lower(doi))), DoiLabel)))

\* the cleaning extract_doi gives the external-id-value it found:
\* doi_value.lower().replace('https://doi.org/', '')
\*          .replace('http://doi.org/', '').strip(), '' for a value that is
\* missing or empty
extract_doi_value(doi_value) ==
    IF doi_value = NaN \/ doi_value = <<>> THEN <<>>
    ELSE Strip(Replace(Replace(Lower(doi_value), HttpsPrefix), HttpPrefix))

(***************************************************************************)
(* Deduplicator                                                            *)
(***************************************************************************)
\* the sentinel title 'unknown title', as clean_text leaves it
UnknownTitleKey == <<"u", "n", "k", "n", "o", "w", "n", " ", "t", "i", "t", "l", "e">>

\* titles of at most this many characters are not compared
TitleMinLength == 10

\* str(n) for a natural number n
RECURSIVE IntToStr(_)
IntToStr(n) ==
    LET digit == <<"0", "1", "2", "3", "4", "5", "6", "7", "8", "9">>[(n % 10) + 1]
    IN IF n < 10 THEN <<digit>> ELSE IntToStr(n \div 10) \o <<digit>>

\* df['year'].fillna('').astype(str), one cell; a cell is <<>> (NaN) or <<n>>
year_clean(year) == IF year = <<>> THEN <<>> ELSE IntToStr(year[1])

\* a drop_duplicates with keep='last': a row stays unless a later row of
\* sel has the same key
drop_duplicates_keep_last(sel, key) ==
    SelectSeq(sel, LAMBDA i :
        \A k \in 1..Len(sel) : sel[k] > i => key[sel[k]] # key[i])

\* DataFrame.drop_duplicates(subset=key, keep='first') on the rows sel (row
\* numbers in increasing order): a row stays unless an earlier row of sel
\* has the same key
drop_duplicates(sel, key) ==
    SelectSeq(sel, LAMBDA i :
        \A k \in 1..Len(sel) : sel[k] < i => key[sel[k]] # key[i])

\* the boolean mask that selects valid_titles
TitleEligible(title_clean) ==
    /\ Len(title_clean) > TitleMinLength
    /\ title_clean # UnknownTitleKey
    /\ title_clean # <<>>

\* where the try block of count_unique_publications raises: nowhere, in
\* publication_df.copy() (before df is bound), in the statement that makes
\* doi_clean (df bound, no doi_clean column), or in a later statement
Faults == {"none", "copy", "doi_clean", "later"}

\* what the except branches return, or raise, for a fault
Fallback(df, fault) ==
    LET doi_key == [i \in 1..Len(df) |-> clean_doi(df[i].doi)]
        unique_dois ==
            Cardinality({doi_key[i] : i \in 1..Len(df)} \ {<<>>})
        returned(unique, removed) ==
            [done |-> TRUE, fault |-> fault, raised |-> FALSE,
             total_unique |-> unique, total_shared_removed |-> removed,
             unique_publications |-> <<>>, doi_shared_removed |-> 0,
             title_shared_removed |-> 0, df_no_doi_shared |-> <<>>,
             valid_titles |-> <<>>]
    IN CASE fault = "later" -> returned(unique_dois, Len(df) - unique_dois)
         [] fault = "doi_clean" -> returned(Len(df), 0)
         [] fault = "copy" -> [returned(0, 0) EXCEPT !.raised = TRUE]

\* count_unique_publications(publication_df); rows are named by their
\* position in publication_df
count_unique_publications(df, fault) ==
    IF df = <<>>
    THEN [done |-> TRUE, fault |-> "none", raised |-> FALSE,
          total_unique |-> 0, total_shared_removed |-> 0,
          unique_publications |-> <<>>, doi_shared_removed |-> 0,
          title_shared_removed |-> 0, df_no_doi_shared |-> <<>>,
          valid_titles |-> <<>>]
    ELSE IF fault # "none" THEN Fallback(df, fault)
    ELSE
    LET rows == [i \in 1..Len(df) |-> i]
        doi_key == [i \in 1..Len(df) |-> clean_doi(df[i].doi)]
        title_key == [i \in 1..Len(df) |-> clean_text(df[i].title)]
        journal_key == [i \in 1..Len(df) |-> clean_text(df[i].journal)]
        year_key == [i \in 1..Len(df) |-> year_clean(df[i].year)]
        df_no_doi_shared == drop_duplicates(rows, doi_key)
        doi_shared_removed == Len(df) - Len(df_no_doi_shared)
        valid_titles ==
            SelectSeq(df_no_doi_shared, LAMBDA i : TitleEligible(title_key[i]))
        triple == [i \in 1..Len(df) |-> <<title_key[i], journal_key[i], year_key[i]>>]
        unique_publications == drop_duplicates(valid_titles, triple)
        title_shared_removed == Len(valid_titles) - Len(unique_publications)
    IN [done |-> TRUE, fault |-> "none", raised |-> FALSE,
        total_unique |-> Len(unique_publications),
        total_shared_removed |-> doi_shared_removed + title_shared_removed,
        unique_publications |-> unique_publications,
        doi_shared_removed |-> doi_shared_removed,
        title_shared_removed |-> title_shared_removed,
        df_no_doi_shared |-> df_no_doi_shared,
        valid_titles |-> valid_titles]

(***************************************************************************)
(* Inputs                                                                  *)
(***************************************************************************)
\* all sequences over S of length at most n
SeqsUpTo(S, n) == UNION {[1..k -> S] : k \in 0..n}

RECURSIVE Flatten(_)
Flatten(ss) == IF ss = <<>> THEN <<>> ELSE Head(ss) \o Flatten(Tail(ss))

\* the pieces raw strings are built from
Fragments ==
    {<<"A">>, <<"b">>, <<" ">>, <<".">>,
     DoiLabel, DoiLabelUpper, HttpsPrefix, HttpPrefix}

\* the raw value handed to clean_text and clean_doi
Raw == Flatten(frags)

\* raw cells of the publication table
DoiA == <<"1", "0", ".", "1", "/", "a">>
DoiAUrl == HttpsPrefix \o <<"1", "0", ".", "1", "/", "A">>
DoiB == <<"1", "0", ".", "2", "/", "b">>
TitleShort == <<"A", "I">>
TitleGraph == <<"g", "r", "a", "p", "h", " ", "t", "h", "e", "o", "r", "y">>
TitleGraphVariant ==
    <<"G", "r", "a", "p", "h", " ", " ", "T", "h", "e", "o", "r", "y", ".">>
TitleUnknown == <<"U", "n", "k", "n", "o", "w", "n", " ", "T", "i", "t", "l", "e">>
JournalPlos == <<"p", "l", "o", "s">>
YearCell == <<2020>>

DoiCells == {<<>>, DoiA, DoiAUrl, DoiB}

\* the title, journal and year cells of a row
ContentCells ==
    {[title |-> TitleShort, journal |-> NaN, year |-> <<>>],
     [title |-> TitleUnknown, journal |-> JournalPlos, year |-> YearCell],
     [title |-> TitleGraph, journal |-> JournalPlos, year |-> YearCell],
     [title |-> TitleGraphVariant, journal |-> JournalPlos, year |-> YearCell],
     [title |-> TitleGraph, journal |-> NaN, year |-> <<>>]}

RecordPool ==
    {[doi |-> d, title |-> c.title, journal |-> c.journal, year |-> c.year] :
        d \in DoiCells, c \in ContentCells}

Pending == [done |-> FALSE]

(***************************************************************************)
(* Registry documents and extract_publication_details                      *)
(***************************************************************************)
\* A value of the JSON document response.json() returns: None, a str, a
\* list, a dict (its items, in order, as <<key, value>> pairs), or a
\* number of epoch milliseconds, held as the whole days and the
\* milliseconds of the day it is made of (86400000 * days + rest).
Null == [t |-> "null", v |-> <<>>]
Str(s) == [t |-> "str", v |-> s]
List(items) == [t |-> "list", v |-> items]
Dict(pairs) == [t |-> "dict", v |-> pairs]
Millis(days, rest) == [t |-> "ms", v |-> <<days, rest>>]

\* a Python int, as Timestamp.year is
PyInt(n) == [t |-> "int", v |-> <<n>>]

\* the outcome of an expression that raised
Raised == [t |-> "raised", v |-> <<>>]

\* bool(x)
Truthy(x) ==
    CASE x.t = "ms" -> x.v # <<0, 0>>
      [] x.t = "int" -> x.v # <<0>>
      [] OTHER -> x.v # <<>>

RECURSIVE Lookup(_, _, _)
Lookup(pairs, key, default) ==
    IF pairs = <<>> THEN default
    ELSE IF Head(pairs)[1] = key THEN Head(pairs)[2]
    ELSE Lookup(Tail(pairs), key, default)

\* obj.get(key, default): AttributeError for an obj that is no dict
Get(obj, key, default) ==
    IF obj.t = "dict" THEN Lookup(obj.v, key, default) ELSE Raised

EmptyStr == Str(<<>>)
EmptyDict == Dict(<<>>)
DoiType == <<"d", "o", "i">>

IsLeap(y) == (y % 4 = 0 /\ y % 100 # 0) \/ y % 400 = 0

\* pd.to_datetime(timestamp, unit='ms').year for a timestamp days whole
\* days after 1970-01-01
RECURSIVE YearFrom(_, _)
YearFrom(y, days) ==
    LET n == IF IsLeap(y) THEN 366 ELSE 365
    IN IF days < n THEN y ELSE YearFrom(y + 1, days - n)

\* extract_title(work)
extract_title(work) ==
    LET title_info == Get(work, "title", EmptyDict)
        title_value == Get(title_info, "title", EmptyDict)
        value == Get(title_value, "value", Str(TitleUnknown))
    IN IF Truthy(title_info) /\ Truthy(title_value) /\ value # Raised
       THEN value
       ELSE Str(TitleUnknown)

\* the loop of extract_doi over external_id_list: the cleaned value of the
\* first entry typed 'doi' that has a value; Raised when an entry met on
\* the way is no dict, or the value no str
RECURSIVE FirstDoi(_)
FirstDoi(external_id_list) ==
    IF external_id_list = <<>> THEN EmptyStr
    ELSE LET ext_id == Head(external_id_list)
             type == Get(ext_id, "external-id-type", Null)
             doi_value == Get(ext_id, "external-id-value", EmptyStr)
         IN IF type = Raised THEN Raised
            ELSE IF type = Str(DoiType) /\ Truthy(doi_value)
                 THEN IF doi_value.t = "str"
                      THEN Str(extract_doi_value(doi_value.v))
                      ELSE Raised
                 ELSE FirstDoi(Tail(external_id_list))

\* extract_doi(work); iterating over anything but a list of dicts raises
\* or ends at once
extract_doi(work) ==
    LET external_ids == Get(work, "external-ids", EmptyDict)
        external_id_list == Get(external_ids, "external-id", List(<<>>))
        found == IF external_id_list.t = "list"
                 THEN FirstDoi(external_id_list.v)
                 ELSE Raised
    IN IF Truthy(external_ids) /\ found # Raised THEN found ELSE EmptyStr

\* extract_year(work); a timestamp that is no number makes to_datetime
\* raise
extract_year(work) ==
    LET pub_date == Get(work, "publication-date", EmptyDict)
        year_value == Get(pub_date, "year", EmptyDict)
        value == Get(year_value, "value", EmptyStr)
        created_date == Get(work, "created-date", EmptyDict)
        timestamp == Get(created_date, "value", Millis(0, 0))
    IN IF Truthy(pub_date) /\ Truthy(year_value) /\ value # Raised
       THEN value
       ELSE IF Truthy(created_date) /\ Truthy(timestamp) /\ timestamp.t = "ms"
            THEN PyInt(YearFrom(1970, timestamp.v[1]))
            ELSE EmptyStr

\* extract_journal(work)
extract_journal(work) ==
    LET journal_title == Get(work, "journal-title", EmptyStr)
        source == Get(work, "source", EmptyDict)
        source_name == Get(source, "source-name", EmptyDict)
        value == Get(source_name, "value", EmptyStr)
    IN IF Truthy(journal_title) THEN journal_title
       ELSE IF /\ journal_title # Raised
               /\ Truthy(source) /\ Truthy(source_name) /\ value # Raised
            THEN value
            ELSE EmptyStr

\* extract_url(work)
extract_url(work) ==
    LET url_info == Get(work, "url", EmptyDict)
        value == Get(url_info, "value", EmptyStr)
    IN IF Truthy(url_info) /\ value # Raised THEN value ELSE EmptyStr

\* the publication_detail built from one work summary
PublicationDetail(work) ==
    [title |-> extract_title(work), doi |-> extract_doi(work),
     year |-> extract_year(work), journal |-> extract_journal(work),
     url |-> extract_url(work)]

\* work_summary[0]: KeyError for a dict, TypeError for a number, the first
\* character for a str
FirstSummary(work_summary) ==
    CASE work_summary.t = "list" -> Head(work_summary.v)
      [] work_summary.t = "str" -> Str(<<Head(work_summary.v)>>)
      [] OTHER -> Raised

\* a loop over the work groups that the first group to raise ends
RECURSIVE ExtractGroupsUntilError(_)
ExtractGroupsUntilError(groups) ==
    IF groups = <<>> THEN <<>>
    ELSE LET work_summary == Get(Head(groups), "work-summary", List(<<>>))
             work == FirstSummary(work_summary)
         IN IF work_summary = Raised THEN <<>>
            ELSE IF ~Truthy(work_summary)
            THEN ExtractGroupsUntilError(Tail(groups))
            ELSE IF work = Raised THEN <<>>
            ELSE <<PublicationDetail(work)>>
                 \o ExtractGroupsUntilError(Tail(groups))

\* an extract_publication_details whose except branch leaves the loop
extract_publication_details_break(work_groups) ==
    ExtractGroupsUntilError(work_groups)

\* the loop of extract_publication_details, from a group on: a group
\* without work summaries is passed over, and so is one that raises
RECURSIVE ExtractGroups(_)
ExtractGroups(groups) ==
    IF groups = <<>> THEN <<>>
    ELSE LET work_summary == Get(Head(groups), "work-summary", List(<<>>))
             work == FirstSummary(work_summary)
         IN IF work_summary = Raised \/ ~Truthy(work_summary)
            THEN ExtractGroups(Tail(groups))
            ELSE IF work = Raised THEN ExtractGroups(Tail(groups))
            ELSE <<PublicationDetail(work)>> \o ExtractGroups(Tail(groups))

\* extract_publication_details(work_groups)
extract_publication_details(work_groups) == ExtractGroups(work_groups)

(***************************************************************************)
(* Registry documents: the work groups given to the extraction             *)
(***************************************************************************)
\* a key the document does not have
Absent == [t |-> "absent", v |-> <<>>]

\* the dict of the pairs whose value is there
Present(pairs) == Dict(SelectSeq(pairs, LAMBDA p : p[2] # Absent))

\* {key: value}
Obj(key, value) == Dict(<< <<key, value>> >>)

\* a str where the program expects a dict or a list
Junk == Str(<<"?">>)

TitleOf(s) == Obj("title", Obj("value", Str(s)))
ExternalId(type, value) ==
    Dict(<< <<"external-id-type", Str(type)>>,
            <<"external-id-value", Str(value)>> >>)
ExternalIds(entries) == Obj("external-id", List(entries))

Year2020 == <<"2", "0", "2", "0">>
UrlText == <<"h", "t", "t", "p", ":", "/", "/", "x">>
Eid == <<"e", "i", "d">>
TitleNetwork ==
    <<"n", "e", "t", "w", "o", "r", "k", " ", "s", "c", "i", "e", "n", "c", "e">>

\* 2019-12-31T00:00:00.001Z in epoch milliseconds
Created2019 == Obj("value", Millis(18261, 1))

\* a work summary with every part there
FullWork ==
    Dict(<< <<"title", TitleOf(TitleGraph)>>,
            <<"external-ids", ExternalIds(<<ExternalId(DoiType, DoiAUrl)>>)>>,
            <<"publication-date", Obj("year", Obj("value", Str(Year2020)))>>,
            <<"created-date", Created2019>>,
            <<"journal-title", Str(JournalPlos)>>,
            <<"source", Obj("source-name", Obj("value", Str(<<"P", "L", "O", "S">>)))>>,
            <<"url", Obj("value", Str(UrlText))>> >>)

\* the work summary with another value under a key, or without the key
With(work, key, value) ==
    Present([k \in 1..Len(work.v) |->
                IF work.v[k][1] = key THEN <<key, value>> ELSE work.v[k]])

\* the other shapes each part of a work summary takes: missing at some
\* depth, of the wrong type at some depth, or there in another way
TitleShapes ==
    {Absent, Null, Junk, Obj("title", EmptyDict), Obj("title", Junk),
     Obj("title", Obj("lang", Str(Eid)))}
IdShapes ==
    {ExternalIds(<<ExternalId(Eid, DoiB), ExternalId(DoiType, DoiA)>>),
     ExternalIds(<<ExternalId(DoiType, <<>>), ExternalId(DoiType, DoiB)>>),
     ExternalIds(<<ExternalId(Eid, DoiB)>>),
     ExternalIds(<<Junk, ExternalId(DoiType, DoiA)>>),
     Absent, Junk, Obj("external-id", Null), Obj("external-id", Junk)}
PubDateShapes ==
    {Absent, Null, Junk, Obj("year", Null), Obj("year", Junk),
     Obj("year", Obj("lang", Str(Eid)))}
CreatedShapes == {Obj("value", Millis(18262, 0)), Absent, Junk, Obj("value", Junk)}
JournalShapes == {Absent, EmptyStr}
SourceShapes ==
    {Absent, Junk, Obj("source-name", Junk), Obj("source-name", EmptyDict)}
UrlShapes == {Absent, Junk, EmptyDict}

\* the work summaries of the registry: FullWork, FullWork with one of
\* title, identifier, year, venue or URL in another shape, a summary with
\* no key at all, and two that are no dict
WorkPool ==
    {FullWork, EmptyDict, Null, Junk}
    \cup {With(FullWork, "title", t) : t \in TitleShapes}
    \cup {With(FullWork, "external-ids", i) : i \in IdShapes}
    \cup {With(FullWork, "publication-date", p) : p \in PubDateShapes}
    \cup {With(With(FullWork, "publication-date", p), "created-date", c) :
            p \in {Absent, Junk}, c \in CreatedShapes}
    \cup {With(FullWork, "journal-title", j) : j \in JournalShapes}
    \cup {With(With(FullWork, "journal-title", j), "source", so) :
            j \in JournalShapes, so \in SourceShapes}
    \cup {With(FullWork, "url", u) : u \in UrlShapes}

\* the work groups of the registry: one summary, two summaries, no
\* summary (no key, null, an empty list), and groups that cannot be
\* processed (a group that is no dict, a work-summary that is a dict)
GroupPool ==
    {Obj("work-summary", List(<<w>>)) : w \in WorkPool}
    \cup {Obj("work-summary", List(<<EmptyDict, FullWork>>)),
          EmptyDict, Obj("work-summary", Null), Obj("work-summary", List(<<>>)),
          Null, Junk, Obj("work-summary", Obj("0", FullWork))}

(***************************************************************************)
(* Normalizer: one raw value, normalized by either function                *)
(***************************************************************************)
NormInit ==
    /\ frags \in SeqsUpTo(Fragments, MaxFrags) \cup {<<NaN>>}
    /\ nText = Unset
    /\ nDoi = Unset
    /\ xDoi = Unset

CleanText ==
    /\ nText = Unset
    /\ nText' = clean_text(Raw)
    /\ UNCHANGED <<frags, nDoi, xDoi>>

CleanDoi ==
    /\ nDoi = Unset
    /\ nDoi' = clean_doi(Raw)
    /\ UNCHANGED <<frags, nText, xDoi>>

\* extract_doi finds the raw value as the external-id-value of a work
ExtractDoi ==
    /\ xDoi = Unset
    /\ xDoi' = extract_doi_value(Raw)
    /\ UNCHANGED <<frags, nText, nDoi>>

(***************************************************************************)
(* Deduplicator: one table, counted once                                   *)
(***************************************************************************)
DedupInit ==
    /\ records \in SeqsUpTo(RecordPool, MaxRecords)
    /\ result = Pending

CountUniquePublications ==
    /\ ~result.done
    /\ \E fault \in Faults : result' = count_unique_publications(records, fault)
    /\ UNCHANGED records

(***************************************************************************)
(* ORCIDSmartUpdater: change detection                                     *)
(***************************************************************************)
\* None, as get_file_hash and get_last_hash return it
NoHash == <<>>

\* hashlib.md5(bytes).hexdigest(): distinct contents have distinct digests
Md5(bytes) == <<"md5", bytes>>

\* get_file_hash(self.excel_file); readOk is FALSE when open/read raises
get_file_hash(exists, bytes, readOk) ==
    IF exists /\ readOk THEN Md5(bytes) ELSE NoHash

\* save_current_hash(file_hash): what last_file_hash.txt holds afterwards;
\* saveOk is FALSE when the file cannot be opened for writing
save_current_hash(stored, file_hash, saveOk) ==
    IF saveOk THEN file_hash ELSE stored

\* get_last_hash(); lastOk is FALSE when reading last_file_hash.txt raises;
\* strip() leaves a stored hexdigest as it is
get_last_hash(stored, lastOk) ==
    IF stored # NoHash /\ lastOk THEN stored ELSE NoHash

\* the outcomes of the three file accesses of one has_file_changed call
IoOutcomes == [read : BOOLEAN, last : BOOLEAN, save : BOOLEAN]

\* one of the accesses a has_file_changed call makes raised (and was logged
\* by logger.error)
HashIoError(exists, stored, io) ==
    /\ exists
    /\ \/ ~io.read
       \/ stored # NoHash /\ ~io.last
       \/ stored = NoHash /\ io.read /\ ~io.save

\* a has_file_changed that skips the existence test
has_file_changed_no_exists_test(exists, bytes, stored, io) ==
    LET current_hash == get_file_hash(exists, bytes, io.read)
        last_hash == get_last_hash(stored, io.last)
    IN IF last_hash = NoHash
       THEN [ret |-> TRUE,
             stored |-> IF current_hash # NoHash
                        THEN save_current_hash(stored, current_hash, io.save)
                        ELSE stored]
       ELSE [ret |-> current_hash # last_hash, stored |-> stored]

\* a has_file_changed that does not save the hash on the first run
has_file_changed_no_save(exists, bytes, stored, io) ==
    IF ~exists THEN [ret |-> FALSE, stored |-> stored]
    ELSE LET current_hash == get_file_hash(exists, bytes, io.read)
             last_hash == get_last_hash(stored, io.last)
         IN IF last_hash = NoHash
            THEN [ret |-> TRUE, stored |-> stored]
            ELSE [ret |-> current_hash # last_hash, stored |-> stored]

\* has_file_changed(): its return value and the stored hash it leaves
has_file_changed(exists, bytes, stored, io) ==
    IF ~exists THEN [ret |-> FALSE, stored |-> stored]
    ELSE LET current_hash == get_file_hash(exists, bytes, io.read)
             last_hash == get_last_hash(stored, io.last)
         IN IF last_hash = NoHash
            THEN [ret |-> TRUE,
                  stored |-> IF current_hash # NoHash
                             THEN save_current_hash(stored, current_hash, io.save)
                             ELSE stored]
            ELSE [ret |-> current_hash # last_hash, stored |-> stored]

(***************************************************************************)
(* ORCIDSmartUpdater: the dataset and the registry                         *)
(***************************************************************************)
\* the character classes of orcid_pattern, r'^\d{4}-\d{4}-\d{4}-\d{3}[\dX]$',
\* between its anchors
OrcidPattern ==
    <<"d", "d", "d", "d", "-", "d", "d", "d", "d", "-",
      "d", "d", "d", "d", "-", "d", "d", "d", "dX">>

\* one character against one class of the pattern
ClassHas(cls, c) ==
    CASE cls = "d" -> c \in DigitChars
      [] cls = "-" -> c = "-"
      [] cls = "dX" -> c \in DigitChars \cup {"X"}

\* re.match(orcid_pattern, s) with a prefix-only pattern, one without the $
re_match_orcid_unanchored(s) ==
    /\ Len(s) >= Len(OrcidPattern)
    /\ \A i \in 1..Len(OrcidPattern) : ClassHas(OrcidPattern[i], s[i])

\* re.match(orcid_pattern, s): ^ is the start of s, $ its end or the place
\* before a newline that ends s
re_match_orcid(s) ==
    /\ Len(s) >= Len(OrcidPattern)
    /\ \A i \in 1..Len(OrcidPattern) : ClassHas(OrcidPattern[i], s[i])
    /\ \/ Len(s) = Len(OrcidPattern)
       \/ Len(s) = Len(OrcidPattern) + 1 /\ s[Len(s)] = "\n"

\* orcid cells of the main sheet: missing, blank, of the wrong shape (a
\* lowercase check character), of the right shape
OrcidMissing == NaN
OrcidBlank == <<" ">>
OrcidMalformed ==
    <<"0", "0", "0", "0", "-", "0", "0", "0", "2", "-",
      "1", "8", "2", "5", "-", "0", "0", "9", "x">>
OrcidWellformed ==
    <<"0", "0", "0", "0", "-", "0", "0", "0", "2", "-",
      "1", "8", "2", "5", "-", "0", "0", "9", "7">>

OrcidKinds == {OrcidMissing, OrcidBlank, OrcidMalformed, OrcidWellformed}

\* a row of the main sheet that no update has touched (the defaults of
\* the required columns)
FreshRow(kind) ==
    [orcid |-> kind, orcid_valid |-> FALSE, publications_count |-> 0,
     works_checked |-> FALSE, publication_details |-> 0]

\* a row as an earlier update left it when the registry knew the
\* researcher: one work group, one publication detail stored
CheckedRow(kind) ==
    [orcid |-> kind, orcid_valid |-> TRUE, publications_count |-> 1,
     works_checked |-> TRUE, publication_details |-> 1]

\* the rows a main sheet is made of: the operator may have changed or
\* emptied the orcid cell of a row since the update that filled it
RowPool ==
    {FreshRow(OrcidBlank), FreshRow(OrcidWellformed),
     CheckedRow(OrcidMissing), CheckedRow(OrcidMalformed), CheckedRow(OrcidWellformed)}

\* what a dataset file that cannot be parsed, or is absent, holds
NoData == [readable |-> FALSE, main |-> <<>>, pubs |-> <<>>]

BytesIds == 1..MaxBytes

\* the bytes of a file that a failed write left truncated, and of no file
NoBytes == 0

\* the entries one researcher adds to all_publication_details: one row of
\* Publication_Details for each of the n details of the row at index
DetailsOf(index, n) == [k \in 1..n |-> [row |-> index, detail |-> k]]

\* the Publication_Details rows behind the details stored in the rows
\* from index on of a main sheet
RECURSIVE StoredDetails(_, _)
StoredDetails(main, index) ==
    IF index > Len(main) THEN <<>>
    ELSE DetailsOf(index, main[index].publication_details)
         \o StoredDetails(main, index + 1)

\* the datasets an operator may put in place
InitDatasets ==
    {[readable |-> TRUE, main |-> m, pubs |-> StoredDetails(m, 1)] :
        m \in SeqsUpTo(RowPool, MaxRows)}

\* what requests.get(url) does: a response with a status, or an exception
\* (status 0); a 200 response carries groups work groups, of which details
\* (all of them, or all but one) have a work summary
Responses ==
    {r \in {[status |-> 200, groups |-> n, details |-> n - bare] :
                n \in 0..MaxGroups, bare \in 0..1} : r.details >= 0}
    \cup {[status |-> st, groups |-> 0, details |-> 0] : st \in {404, 500, 0}}

\* test_orcid_validity_with_works(orcid_id): is_valid, pub_count, the number
\* of publication_details, and whether requests.get was called
test_orcid_validity_with_works(orcid_id, resp) ==
    LET rejected ==
            [is_valid |-> FALSE, pub_count |-> 0, details |-> 0, called |-> FALSE]
        orcid_clean == Strip(orcid_id)
    IN IF orcid_id = NaN \/ orcid_id = <<>> THEN rejected
       ELSE IF ~re_match_orcid(orcid_clean) THEN rejected
       ELSE IF resp.status = 200
            THEN [is_valid |-> TRUE, pub_count |-> resp.groups,
                  details |-> resp.details, called |-> TRUE]
            ELSE [is_valid |-> FALSE, pub_count |-> 0, details |-> 0, called |-> TRUE]

\* an update_researcher_data that takes the number of extracted details
\* for the publication count
update_researcher_data_counts_details(row, t) ==
    IF t.is_valid
    THEN [row EXCEPT !.orcid_valid = TRUE,
                     !.publications_count = t.details,
                     !.works_checked = TRUE,
                     !.publication_details = t.details]
    ELSE [row EXCEPT !.orcid_valid = FALSE,
                     !.works_checked = TRUE,
                     !.publication_details = 0]

\* update_researcher_data(df, index, orcid): the row it leaves at index
update_researcher_data(row, t) ==
    IF t.is_valid
    THEN [row EXCEPT !.orcid_valid = TRUE,
                     !.publications_count = t.pub_count,
                     !.works_checked = TRUE,
                     !.publication_details = t.details]
    ELSE [row EXCEPT !.orcid_valid = FALSE,
                     !.works_checked = TRUE,
                     !.publication_details = 0]

\* an update loop that skips no row
SkipsRow_never(orcid) == FALSE

\* the test both update loops make before touching a row:
\* pd.isna(orcid) or not str(orcid).strip()
SkipsRow(orcid) == orcid = NaN \/ Strip(orcid) = <<>>

\* what the running update has done to one row of the main sheet
Skipped == [skipped |-> TRUE, called |-> FALSE, is_valid |-> FALSE, groups |-> 0]
Processed(t, resp) ==
    [skipped |-> FALSE, called |-> t.called, is_valid |-> t.is_valid,
     groups |-> IF t.called /\ resp.status = 200 THEN resp.groups ELSE 0]

NoRun ==
    [op |-> "none", startExists |-> FALSE, startData |-> NoData, changed |-> <<>>, backup |-> "none",
     fetches |-> 0, log |-> <<>>, save |-> "none", writes |-> 0,
     storedAtSave |-> NoHash, reported |-> FALSE, ret |-> <<>>]

(***************************************************************************)
(* Validity test: one identifier, tested once against the registry         *)
(***************************************************************************)
\* the pieces identifiers are built from
OrcidFragments ==
    {<<"0", "0", "0", "0", "-", "0", "0", "0", "2", "-", "1", "8", "2", "5", "-">>,
     <<"0", "0", "9", "7">>, <<"0", "0", "9">>,
     <<"7">>, <<"X">>, <<"x">>, <<"-">>, <<" ">>}

\* the orcid_id handed to test_orcid_validity_with_works
RawOrcid == Flatten(oFrags)

OrcidInit ==
    /\ oFrags \in SeqsUpTo(OrcidFragments, MaxOrcidFrags) \cup {<<NaN>>}
    /\ oResult = <<>>

\* one call of test_orcid_validity_with_works; the registry answers a
\* request, if one is made, with resp
TestOrcidValidity ==
    /\ oResult = <<>>
    /\ \E resp \in Responses :
        /\ resp.details <= resp.groups
        /\ oResult' = <<test_orcid_validity_with_works(RawOrcid, resp)>>
    /\ UNCHANGED oFrags

(***************************************************************************)
(* ORCIDSmartUpdater: operations                                           *)
(***************************************************************************)
UpdInit ==
    /\ fileExists \in BOOLEAN
    /\ IF fileExists
       THEN fileBytes \in BytesIds /\ fileData \in InitDatasets
       ELSE fileBytes = NoBytes /\ fileData = NoData
    /\ storedHash \in {NoHash} \cup {Md5(b) : b \in BytesIds}
    /\ pc = "idle"
    /\ dfMain = <<>>
    /\ idx = 0
    /\ pubs = <<>>
    /\ run = NoRun
    /\ hfcLog = <<>>

\* a direct call of has_file_changed (menu option 3)
HasFileChangedCall ==
    /\ pc = "idle"
    /\ Len(hfcLog) < MaxCalls
    /\ \E io \in IoOutcomes :
        LET r == has_file_changed(fileExists, fileBytes, storedHash, io)
        IN /\ storedHash' = r.stored
           /\ hfcLog' = Append(hfcLog,
                 [exists |-> fileExists, bytes |-> fileBytes,
                  storedBefore |-> storedHash, storedAfter |-> r.stored,
                  ret |-> r.ret,
                  error |-> HashIoError(fileExists, storedHash, io)])
    /\ UNCHANGED <<fileVars, pc, dfMain, idx, pubs, run>>

\* the operator edits the spreadsheet by hand: the orcid cell of a row, or
\* a cell the updater does not look at
EditFile ==
    /\ pc = "idle"
    /\ fileExists
    /\ fileBytes' \in BytesIds \ {fileBytes}
    /\ \/ fileData' = fileData
       \/ \E i \in 1..Len(fileData.main), k \in OrcidKinds :
             /\ k # fileData.main[i].orcid
             /\ [fileData.main[i] EXCEPT !.orcid = k] \in RowPool
             /\ fileData' = [fileData EXCEPT !.main[i].orcid = k]
    /\ hfcLog' = <<>>
    /\ UNCHANGED <<fileExists, storedHash, pc, dfMain, idx, pubs, run>>

\* the spreadsheet is removed
DeleteFile ==
    /\ pc = "idle"
    /\ fileExists
    /\ fileExists' = FALSE
    /\ fileBytes' = NoBytes
    /\ fileData' = NoData
    /\ hfcLog' = <<>>
    /\ UNCHANGED <<storedHash, pc, dfMain, idx, pubs, run>>

\* a spreadsheet is put in place
CreateFile ==
    /\ pc = "idle"
    /\ ~fileExists
    /\ fileExists' = TRUE
    /\ fileBytes' \in BytesIds
    /\ fileData' \in InitDatasets
    /\ hfcLog' = <<>>
    /\ UNCHANGED <<storedHash, pc, dfMain, idx, pubs, run>>

\* smart_update, lines 345-351: the file must exist
SmartUpdateStart ==
    /\ pc = "idle"
    /\ hfcLog' = IF fileExists THEN <<>> ELSE hfcLog
    /\ dfMain' = <<>> /\ idx' = 0 /\ pubs' = <<>>
    /\ IF ~fileExists
       THEN /\ run' = [NoRun EXCEPT !.op = "smart_update", !.ret = <<FALSE>>]
            /\ pc' = "done"
       ELSE /\ run' = [NoRun EXCEPT !.op = "smart_update", !.startExists = TRUE,
                                    !.startData = fileData]
            /\ pc' = "su_check"
    /\ UNCHANGED <<fileVars, storedHash>>

\* smart_update, lines 353-359: has_file_changed decides the path
SmartUpdateCheck ==
    /\ pc = "su_check"
    /\ \E io \in IoOutcomes :
        LET r == has_file_changed(fileExists, fileBytes, storedHash, io)
        IN /\ storedHash' = r.stored
           /\ run' = [run EXCEPT !.changed = <<r.ret>>]
           /\ pc' = IF r.ret THEN "su_backup" ELSE "po_load"
    /\ UNCHANGED <<fileVars, dfMain, idx, pubs, hfcLog>>

\* smart_update, line 362: create_backup, whose result is not looked at
SmartUpdateBackup ==
    /\ pc = "su_backup"
    /\ \E ok \in BOOLEAN :
        run' = [run EXCEPT !.backup = IF ok THEN "ok" ELSE "failed"]
    /\ pc' = "su_load"
    /\ UNCHANGED <<fileVars, storedHash, dfMain, idx, pubs, hfcLog>>

\* smart_update lines 364-387 and update_publication_data_only lines
\* 452-457: read Sheet1; an exception ends the run with False
LoadMainSheet ==
    /\ pc \in {"su_load", "po_load"}
    /\ \E readOk \in BOOLEAN :
        IF fileExists /\ fileData.readable /\ readOk
        THEN /\ dfMain' = fileData.main
             /\ idx' = 1
             /\ pubs' = <<>>
             /\ pc' = IF pc = "su_load" THEN "su_loop" ELSE "po_loop"
             /\ run' = run
        ELSE /\ run' = [run EXCEPT !.ret = <<FALSE>>]
             /\ pc' = "done"
             /\ UNCHANGED <<dfMain, idx, pubs>>
    /\ UNCHANGED <<fileVars, storedHash, hfcLog>>

\* one pass of the loop over df_main.iterrows(), smart_update lines 390-414
\* and update_publication_data_only lines 459-479
UpdateRow ==
    /\ pc \in {"su_loop", "po_loop"}
    /\ idx <= Len(dfMain)
    /\ IF SkipsRow(dfMain[idx].orcid)
       THEN /\ run' = [run EXCEPT !.log = Append(@, Skipped)]
            /\ UNCHANGED <<dfMain, pubs>>
       ELSE \E resp \in Responses :
            LET t == test_orcid_validity_with_works(Strip(dfMain[idx].orcid), resp)
            IN /\ resp.details <= resp.groups
               /\ dfMain' = [dfMain EXCEPT ![idx] = update_researcher_data(@, t)]
               /\ pubs' = IF t.is_valid THEN pubs \o DetailsOf(idx, t.details) ELSE pubs
               /\ run' = [run EXCEPT !.fetches = @ + (IF t.called THEN 1 ELSE 0),
                                     !.log = Append(@, Processed(t, resp))]
    /\ idx' = idx + 1
    /\ UNCHANGED <<fileVars, storedHash, pc, hfcLog>>

\* save_excel_with_both_sheets(df_main, df_publications): the file it
\* leaves; a write that fails leaves the file untouched or truncated
SaveOutcomes == {"ok", "untouched", "truncated"}

SaveBothSheets(outcome) ==
    /\ CASE outcome = "ok" ->
              /\ fileExists' = TRUE
              /\ fileBytes' \in BytesIds
              /\ fileData' = [readable |-> TRUE, main |-> dfMain, pubs |-> pubs]
         [] outcome = "untouched" ->
              UNCHANGED fileVars
         [] outcome = "truncated" ->
              /\ fileExists' = TRUE
              /\ fileBytes' = NoBytes
              /\ fileData' = NoData
    /\ run' = [run EXCEPT !.save = IF outcome = "ok" THEN "ok" ELSE "failed",
                          !.writes = @ + (IF outcome = "ok" THEN 1 ELSE 0),
                          !.storedAtSave = storedHash]

\* a smart_update that may write both sheets before the loop is over
SmartUpdateSave_inside_loop ==
    /\ pc = "su_loop"
    /\ \E outcome \in SaveOutcomes : SaveBothSheets(outcome)
    /\ pc' = "su_hash"
    /\ UNCHANGED <<storedHash, dfMain, idx, pubs, hfcLog>>

\* smart_update, lines 416-429: after the loop, write both sheets; the
\* result of save_excel_with_both_sheets is not looked at
SmartUpdateSave ==
    /\ pc = "su_loop"
    /\ idx > Len(dfMain)
    /\ \E outcome \in SaveOutcomes : SaveBothSheets(outcome)
    /\ pc' = "su_hash"
    /\ UNCHANGED <<storedHash, dfMain, idx, pubs, hfcLog>>

\* smart_update, lines 431-434: hash the file and store the hash
SmartUpdateHash ==
    /\ pc = "su_hash"
    /\ \E readOk \in BOOLEAN, saveOk \in BOOLEAN :
        LET current_hash == get_file_hash(fileExists, fileBytes, readOk)
        IN storedHash' = IF current_hash # NoHash
                         THEN save_current_hash(storedHash, current_hash, saveOk)
                         ELSE storedHash
    /\ pc' = "su_report"
    /\ UNCHANGED <<fileVars, dfMain, idx, pubs, run, hfcLog>>

\* smart_update, lines 436-442: generate_update_report, then return True
SmartUpdateReport ==
    /\ pc = "su_report"
    /\ \E ok \in BOOLEAN :
        run' = [run EXCEPT !.reported = ok, !.ret = <<TRUE>>]
    /\ pc' = "done"
    /\ UNCHANGED <<fileVars, storedHash, dfMain, idx, pubs, hfcLog>>

\* update_publication_data_only called directly (menu option 2)
PublicationOnlyStart ==
    /\ pc = "idle"
    /\ hfcLog' = <<>>
    /\ dfMain' = <<>> /\ idx' = 0 /\ pubs' = <<>>
    /\ run' = [NoRun EXCEPT !.op = "update_publication_data_only",
                            !.startExists = fileExists,
                            !.startData = fileData]
    /\ pc' = "po_load"
    /\ UNCHANGED <<fileVars, storedHash>>

\* update_publication_data_only, lines 481-499: write both sheets and
\* return True
PublicationOnlySave ==
    /\ pc = "po_loop"
    /\ idx > Len(dfMain)
    /\ \E outcome \in SaveOutcomes : SaveBothSheets(outcome)
    /\ pc' = "po_return"
    /\ UNCHANGED <<storedHash, dfMain, idx, pubs, hfcLog>>

PublicationOnlyReturn ==
    /\ pc = "po_return"
    /\ run' = [run EXCEPT !.ret = <<TRUE>>]
    /\ pc' = "done"
    /\ UNCHANGED <<fileVars, storedHash, dfMain, idx, pubs, hfcLog>>

(***************************************************************************)
(* Extraction: one registry answer, extracted once                         *)
(***************************************************************************)
ExtractInit ==
    /\ xGroups \in SeqsUpTo(GroupPool, MaxWorkGroups)
    /\ xDetails = <<>>

\* one call of extract_publication_details
ExtractPublicationDetails ==
    /\ xDetails = <<>>
    /\ xDetails' = <<extract_publication_details(xGroups)>>
    /\ UNCHANGED xGroups

(***************************************************************************)
(* Full update of a three-researcher dataset, then the unique count of     *)
(* its Publication_Details table                                           *)
(***************************************************************************)
\* the work summaries the registry holds for the researcher it knows; they
\* carry no publication-date, so that year is '' or the int taken from
\* created-date
ScenarioWorks ==
    {With(With(With(With(With(With(FullWork,
        "title", t), "external-ids", i), "publication-date", Absent),
        "created-date", c), "journal-title", Absent), "source", Absent) :
        t \in {TitleOf(TitleGraph), TitleOf(TitleNetwork), TitleOf(TitleShort), Absent},
        i \in {ExternalIds(<<ExternalId(DoiType, DoiAUrl)>>),
               ExternalIds(<<ExternalId(DoiType, DoiB)>>), Absent},
        c \in {Created2019, Absent}}

\* main sheets of three researchers: an identifier of the right shape,
\* one of the wrong shape, one missing or blank; each row fresh or as an
\* earlier update left it
ScenarioSheets ==
    {<<r1, r2, r3>> :
        r1 \in {FreshRow(OrcidWellformed), CheckedRow(OrcidWellformed)},
        r2 \in {FreshRow(OrcidMalformed), CheckedRow(OrcidMalformed)},
        r3 \in {FreshRow(OrcidMissing), CheckedRow(OrcidMissing),
                FreshRow(OrcidBlank), CheckedRow(OrcidBlank)}}

ScenarioInit ==
    /\ dfMain \in ScenarioSheets
    /\ xGroups \in SeqsUpTo({Obj("work-summary", List(<<w>>)) : w \in ScenarioWorks},
                            MaxGroups)
    /\ idx = 1
    /\ pubs = <<>>
    /\ pc = "loop"
    /\ run = [NoRun EXCEPT !.op = "smart_update", !.startExists = TRUE,
                           !.startData = [readable |-> TRUE, main |-> dfMain,
                                          pubs |-> <<>>]]
    /\ records = <<>>
    /\ result = Pending
    /\ xDetails = <<>>
    /\ fileExists = TRUE /\ fileBytes = 1 /\ fileData = run.startData
    /\ storedHash = NoHash /\ hfcLog = <<>>

\* one pass of the loop of smart_update, lines 390-414; the registry
\* answers a request with a status and, for 200, the groups xGroups
ScenarioUpdateRow ==
    /\ pc = "loop"
    /\ idx <= Len(dfMain)
    /\ IF SkipsRow(dfMain[idx].orcid)
       THEN /\ run' = [run EXCEPT !.log = Append(@, Skipped)]
            /\ UNCHANGED <<dfMain, pubs>>
       ELSE \E status \in {200, 404, 500, 0} :
            LET details == IF status = 200
                           THEN extract_publication_details(xGroups)
                           ELSE <<>>
                resp == [status |-> status,
                         groups |-> IF status = 200 THEN Len(xGroups) ELSE 0,
                         details |-> Len(details)]
                t == test_orcid_validity_with_works(Strip(dfMain[idx].orcid), resp)
            IN /\ dfMain' = [dfMain EXCEPT ![idx] = update_researcher_data(@, t)]
               /\ pubs' = IF t.is_valid
                          THEN pubs \o [k \in 1..Len(details) |->
                                           [row |-> idx, detail |-> details[k]]]
                          ELSE pubs
               /\ run' = [run EXCEPT !.fetches = @ + (IF t.called THEN 1 ELSE 0),
                                     !.log = Append(@, Processed(t, resp))]
    /\ idx' = idx + 1
    /\ UNCHANGED <<fileVars, storedHash, pc, hfcLog, records, result, extractVars>>

\* the cell of the table a field of a detail fills
CellOf(value) == value.v

\* smart_update, lines 416-426: df_publications, the table that
\* count_unique_publications is given
ScenarioTable ==
    /\ pc = "loop"
    /\ idx > Len(dfMain)
    /\ records' = [k \in 1..Len(pubs) |->
                      [doi |-> CellOf(pubs[k].detail.doi),
                       title |-> CellOf(pubs[k].detail.title),
                       journal |-> CellOf(pubs[k].detail.journal),
                       year |-> CellOf(pubs[k].detail.year)]]
    /\ pc' = "table"
    /\ UNCHANGED <<fileVars, storedHash, dfMain, idx, pubs, run, hfcLog, result,
                   extractVars>>

\* count_unique_publications on the table
ScenarioCount ==
    /\ pc = "table"
    /\ CountUniquePublications
    /\ pc' = "done"
    /\ UNCHANGED <<fileVars, storedHash, dfMain, idx, pubs, run, hfcLog, extractVars>>

(***************************************************************************)
(* Specifications                                                          *)
(***************************************************************************)
NormIdle == frags = <<>> /\ nText = Unset /\ nDoi = Unset /\ xDoi = Unset
OrcidIdle == oFrags = <<>> /\ oResult = <<>>
DedupIdle == records = <<>> /\ result = Pending
UpdIdle ==
    /\ fileExists = FALSE /\ fileBytes = NoBytes /\ fileData = NoData
    /\ storedHash = NoHash /\ pc = "idle" /\ dfMain = <<>> /\ idx = 0
    /\ pubs = <<>> /\ run = NoRun /\ hfcLog = <<>>

ExtractIdle == xGroups = <<>> /\ xDetails = <<>>

InitNorm == NormInit /\ OrcidIdle /\ DedupIdle /\ UpdIdle /\ ExtractIdle
NextNorm ==
    \/ CleanText /\ UNCHANGED <<orcidVars, dedupVars, updVars, extractVars>>
    \/ CleanDoi /\ UNCHANGED <<orcidVars, dedupVars, updVars, extractVars>>
    \/ ExtractDoi /\ UNCHANGED <<orcidVars, dedupVars, updVars, extractVars>>
SpecNorm == InitNorm /\ [][NextNorm]_vars

InitOrcid == OrcidInit /\ NormIdle /\ DedupIdle /\ UpdIdle /\ ExtractIdle
NextOrcid == TestOrcidValidity /\ UNCHANGED <<normVars, dedupVars, updVars, extractVars>>
SpecOrcid == InitOrcid /\ [][NextOrcid]_vars

InitDedup == DedupInit /\ NormIdle /\ OrcidIdle /\ UpdIdle /\ ExtractIdle
NextDedup == CountUniquePublications /\ UNCHANGED <<normVars, orcidVars, updVars, extractVars>>
SpecDedup == InitDedup /\ [][NextDedup]_vars

InitUpd == UpdInit /\ NormIdle /\ OrcidIdle /\ DedupIdle /\ ExtractIdle
NextUpd ==
    \/ HasFileChangedCall /\ UNCHANGED <<normVars, orcidVars, dedupVars, extractVars>>
    \/ EditFile /\ UNCHANGED <<normVars, orcidVars, dedupVars, extractVars>>
    \/ DeleteFile /\ UNCHANGED <<normVars, orcidVars, dedupVars, extractVars>>
    \/ CreateFile /\ UNCHANGED <<normVars, orcidVars, dedupVars, extractVars>>
    \/ SmartUpdateStart /\ UNCHANGED <<normVars, orcidVars, dedupVars, extractVars>>
    \/ SmartUpdateCheck /\ UNCHANGED <<normVars, orcidVars, dedupVars, extractVars>>
    \/ SmartUpdateBackup /\ UNCHANGED <<normVars, orcidVars, dedupVars, extractVars>>
    \/ LoadMainSheet /\ UNCHANGED <<normVars, orcidVars, dedupVars, extractVars>>
    \/ UpdateRow /\ UNCHANGED <<normVars, orcidVars, dedupVars, extractVars>>
    \/ SmartUpdateSave /\ UNCHANGED <<normVars, orcidVars, dedupVars, extractVars>>
    \/ SmartUpdateHash /\ UNCHANGED <<normVars, orcidVars, dedupVars, extractVars>>
    \/ SmartUpdateReport /\ UNCHANGED <<normVars, orcidVars, dedupVars, extractVars>>
    \/ PublicationOnlyStart /\ UNCHANGED <<normVars, orcidVars, dedupVars, extractVars>>
    \/ PublicationOnlySave /\ UNCHANGED <<normVars, orcidVars, dedupVars, extractVars>>
    \/ PublicationOnlyReturn /\ UNCHANGED <<normVars, orcidVars, dedupVars, extractVars>>
SpecUpd == InitUpd /\ [][NextUpd]_vars

InitExtract == ExtractInit /\ NormIdle /\ OrcidIdle /\ DedupIdle /\ UpdIdle
NextExtract ==
    ExtractPublicationDetails /\ UNCHANGED <<normVars, orcidVars, dedupVars, updVars>>
SpecExtract == InitExtract /\ [][NextExtract]_vars

InitScenario == ScenarioInit /\ NormIdle /\ OrcidIdle
NextScenario ==
    \/ ScenarioUpdateRow /\ UNCHANGED <<normVars, orcidVars>>
    \/ ScenarioTable /\ UNCHANGED <<normVars, orcidVars>>
    \/ ScenarioCount /\ UNCHANGED <<normVars, orcidVars>>
SpecScenario == InitScenario /\ [][NextScenario]_vars

(***************************************************************************)
(* Properties of count_unique_publications                                 *)
(***************************************************************************)
Range(seq) == {seq[i] : i \in DOMAIN seq}

\* the normalized identifier of input row i
IdKey(i) == clean_doi(records[i].doi)

\* the (title, venue, year) key of input row i
TripleKey(i) ==
    <<clean_text(records[i].title), clean_text(records[i].journal),
      year_clean(records[i].year)>>

\* input row i is eligible for the title pass
EligibleRow(i) == TitleEligible(clean_text(records[i].title))

\* the input rows that share row i's normalized identifier
IdGroup(i) == {j \in 1..Len(records) : IdKey(j) = IdKey(i)}

Min(S) == CHOOSE m \in S : \A x \in S : m <= x

\* C1: uniqueCount + removedCount equals the number of input records, and
\* the empty input gives (0, 0, empty).
C1_CountsAddUp ==
    (result.done /\ result.fault = "none") =>
        /\ result.total_unique + result.total_shared_removed = Len(records)
        /\ records = <<>> =>
              /\ result.total_unique = 0
              /\ result.total_shared_removed = 0
              /\ result.unique_publications = <<>>

\* C2: every record that survives the identifier pass and is not
\* title-eligible is among the unique records and counted in uniqueCount.
C2_IneligibleRetained ==
    (result.done /\ result.fault = "none") =>
        /\ \A i \in Range(result.df_no_doi_shared) :
              ~EligibleRow(i) => i \in Range(result.unique_publications)
        /\ result.total_unique = Len(result.unique_publications)

\* C3: every record with an empty normalized identifier survives the
\* identifier pass, and idDuplicatesRemoved counts exactly the records
\* dropped for sharing a non-empty identifier with an earlier record.
C3_EmptyIdNeverDeduplicated ==
    (result.done /\ result.fault = "none") =>
        /\ \A i \in 1..Len(records) :
              IdKey(i) = <<>> => i \in Range(result.df_no_doi_shared)
        /\ result.doi_shared_removed =
              Cardinality({i \in 1..Len(records) :
                  IdKey(i) # <<>> /\ \E j \in 1..(i - 1) : IdKey(j) = IdKey(i)})

\* C4: of two or more records sharing a non-empty normalized
\* identifier exactly one is among the unique records, it is the first of
\* them, and each of the others is counted once as an identifier duplicate.
C4_ExactlyOneOfGroupKept ==
    (result.done /\ result.fault = "none") =>
        \A i \in 1..Len(records) :
            (IdKey(i) # <<>> /\ Cardinality(IdGroup(i)) >= 2) =>
                /\ IdGroup(i) \cap Range(result.unique_publications) = {Min(IdGroup(i))}
                /\ IdGroup(i) \cap Range(result.df_no_doi_shared) = {Min(IdGroup(i))}
                /\ result.doi_shared_removed =
                      Len(records) - Len(result.df_no_doi_shared)

\* C5: two records with empty identifiers and the same eligible title,
\* venue and year: the first alone is kept and the removal is the title
\* pass's (titleDuplicatesRemoved = 1, idDuplicatesRemoved = 0).
C5_TitlePassRemovesEmptyIdTwin ==
    (/\ result.done
     /\ result.fault = "none"
     /\ Len(records) = 2
     /\ IdKey(1) = <<>> /\ IdKey(2) = <<>>
     /\ EligibleRow(1)
     /\ TripleKey(1) = TripleKey(2)) =>
        /\ result.unique_publications = <<1>>
        /\ result.title_shared_removed = 1
        /\ result.doi_shared_removed = 0

(***************************************************************************)
(* Properties of the normalizers                                           *)
(***************************************************************************)
\* the raw value is a prefix fragment followed by a body
HasPrefixFragment ==
    /\ frags # <<>>
    /\ frags # <<NaN>>
    /\ Head(frags) \in {HttpsPrefix, HttpPrefix, DoiLabel, DoiLabelUpper}

\* what follows the first fragment of the raw value
Body == Flatten(Tail(frags))

\* a bare identifier body: one that carries no prefix of its own
IsBare(b) ==
    /\ ~StartsWith(Lower(b), HttpsPrefix)
    /\ ~StartsWith(Lower(b), HttpPrefix)
    /\ ~StartsWith(Lower(b), DoiLabel)

\* C6: for every bare body b, clean_doi of 'https://doi.org/' + b, of
\* 'http://doi.org/' + b and of 'doi:' + b (in either letter case) is
\* lowercase(trim(b)); a missing or empty input gives the empty key.
C6_PrefixAndCaseInsensitive ==
    nDoi # Unset =>
        /\ (frags = <<NaN>> \/ Raw = <<>>) => nDoi = <<>>
        /\ (HasPrefixFragment /\ IsBare(Body)) => nDoi = Lower(Strip(Body))

\* 'https://doi.org/' + ' A.' was normalized to 'a.'
C6_Witness ==
    /\ frags = <<HttpsPrefix, <<" ">>, <<"A">>, <<".">> >>
    /\ nDoi = <<"a", ".">>

\* C7: the key clean_text returns is lowercase, has no leading or trailing
\* whitespace, no run of two or more whitespace characters and no
\* punctuation; a missing input gives the empty key.
C7_TextKeyIsNormalized ==
    nText # Unset =>
        /\ nText = Lower(nText)
        /\ nText = Strip(nText)
        /\ \A i \in 1..(Len(nText) - 1) : ~(IsSpace(nText[i]) /\ IsSpace(nText[i + 1]))
        /\ \A i \in 1..Len(nText) : IsWord(nText[i]) \/ IsSpace(nText[i])
        /\ frags = <<NaN>> => nText = <<>>

(***************************************************************************)
(* Properties of the change detector and of smart_update                   *)
(* hfcLog holds the direct has_file_changed calls made one after the other *)
(* with nothing done to the file in between.                               *)
(***************************************************************************)
\* a call that found the dataset file present and no stored hash
FirstInvocation(call) == call.exists /\ call.storedBefore = NoHash

C9_AbsentFileIsNoOp ==
    /\ \A k \in 1..Len(hfcLog) :
          ~hfcLog[k].exists =>
              ~hfcLog[k].ret /\ hfcLog[k].storedAfter = hfcLog[k].storedBefore
    /\ (run.op = "smart_update" /\ ~run.startExists) =>
          /\ pc = "done"
          /\ run.ret = <<FALSE>>
          /\ run.fetches = 0
          /\ run.save = "none" /\ run.writes = 0
          /\ ~fileExists

\* with the file absent and a hash stored, has_file_changed returned false
\* and smart_update then returned False
C9_Witness ==
    /\ Len(hfcLog) = 1
    /\ ~hfcLog[1].exists
    /\ hfcLog[1].storedBefore # NoHash
    /\ storedHash = hfcLog[1].storedBefore
    /\ run.op = "smart_update"
    /\ pc = "done"
    /\ run.ret = <<FALSE>>

\* C10: in a smart_update run whose write of the dataset failed, the
\* stored hash stays what it was at the write attempt.
C10_HashKeptAfterFailedWrite ==
    (run.op = "smart_update" /\ run.save = "failed") =>
        storedHash = run.storedAtSave

\* C11: at the end of a run that wrote the dataset file successfully, the
\* stored hash is the hash of the dataset file on disk.
C11_HashStoredAfterEveryWrite ==
    (pc = "done" /\ run.save = "ok") => storedHash = Md5(fileBytes)

\* C12: in a smart_update run where has_file_changed returned false, no
\* registry call is issued for any researcher.
C12_UnchangedFileNoFetch ==
    (run.op = "smart_update" /\ run.changed = <<FALSE>>) =>
        /\ run.fetches = 0
        /\ \A i \in 1..Len(run.log) : ~run.log[i].called

(***************************************************************************)
(* Properties of the update loops                                          *)
(* run.log[i] tells what the running update did to row i of the main sheet *)
(* and run.startData what the dataset file held when the run began.        *)
(***************************************************************************)
\* an identifier cell that is missing or holds nothing but whitespace
MissingOrBlank(orcid) ==
    orcid = NaN \/ \A k \in 1..Len(orcid) : IsSpace(orcid[k])

\* C13: a researcher whose identifier is missing or blank is skipped in
\* both update loops: no registry call is made for the row and every field
\* of the row is the same after the run, in memory and in the written
\* file, as before it.
C13_BlankRowSkipped ==
    \A i \in 1..Len(run.log) :
        MissingOrBlank(run.startData.main[i].orcid) =>
            /\ run.log[i].skipped
            /\ ~run.log[i].called
            /\ dfMain[i] = run.startData.main[i]
            /\ run.save = "ok" => fileData.main[i] = run.startData.main[i]

\* a finished run that fetched for one row, skipped a row whose cell was
\* emptied after an earlier update, and wrote the file
C13_Witness ==
    /\ pc = "done"
    /\ run.save = "ok"
    /\ run.fetches = 1
    /\ Len(run.log) = 2
    /\ run.startData.main[2] = CheckedRow(OrcidMissing)
    /\ fileData.main[2] = CheckedRow(OrcidMissing)

\* s.split(sep)
RECURSIVE SplitOn(_, _, _)
SplitOn(s, sep, group) ==
    IF s = <<>> THEN <<group>>
    ELSE IF Head(s) = sep THEN <<group>> \o SplitOn(Tail(s), sep, <<>>)
    ELSE SplitOn(Tail(s), sep, Append(group, Head(s)))

AllDigits(g) == \A k \in 1..Len(g) : g[k] \in DigitChars

\* four dash-separated groups: 4 digits, 4 digits, 4 digits, and 3 digits
\* plus a digit or X
ShapeValid(s) ==
    LET g == SplitOn(s, "-", <<>>)
    IN /\ Len(g) = 4
       /\ \A k \in 1..4 : Len(g[k]) = 4
       /\ \A k \in 1..3 : AllDigits(g[k])
       /\ AllDigits(SubSeq(g[4], 1, 3))
       /\ g[4][4] \in DigitChars \cup {"X"}

\* C14: an identifier that, trimmed, is not of the shape of four
\* dash-separated groups is rejected by test_orcid_validity_with_works with
\* (invalid, 0, no details) and no registry call; a registry call is issued
\* only for shape-valid identifiers.
C14_ShapeInvalidRejectedWithoutCall ==
    oResult # <<>> =>
        /\ ~ShapeValid(Strip(RawOrcid)) =>
              oResult[1] =
                  [is_valid |-> FALSE, pub_count |-> 0, details |-> 0, called |-> FALSE]
        /\ oResult[1].called => ShapeValid(Strip(RawOrcid))

\* an identifier with a lowercase check character was rejected without a
\* registry call
C14_Witness ==
    /\ RawOrcid = OrcidMalformed
    /\ oResult # <<>>
    /\ ~oResult[1].is_valid
    /\ ~oResult[1].called

\* C15: a non-blank researcher whose identifier is shape-invalid or whose
\* registry call fails ends the run, in the written dataset, marked invalid
\* with a publication count of zero and no Publication_Details rows,
\* whatever the row held before; and the run processed every row.
C15_FailedResearcherZeroed ==
    (pc = "done" /\ run.save = "ok") =>
        /\ Len(run.log) = Len(dfMain)
        /\ \A i \in 1..Len(run.log) :
              (~run.log[i].skipped /\ ~run.log[i].is_valid) =>
                  /\ ~fileData.main[i].orcid_valid
                  /\ fileData.main[i].publications_count = 0
                  /\ \A k \in 1..Len(fileData.pubs) : fileData.pubs[k].row # i

\* C16: every researcher marked valid in the run has a publication count
\* equal to the number of work groups the registry returned, never
\* negative, however many details were extracted; the written file
\* carries the same count.
C16_CountIsGroupCount ==
    \A i \in 1..Len(run.log) :
        run.log[i].is_valid =>
            /\ dfMain[i].orcid_valid
            /\ dfMain[i].publications_count = run.log[i].groups
            /\ dfMain[i].publications_count >= 0
            /\ run.save = "ok" =>
                  fileData.main[i].publications_count = run.log[i].groups

\* a researcher who held one publication got two work groups with one
\* detail, and the file was written
C16_Witness ==
    /\ pc = "done"
    /\ run.save = "ok"
    /\ Len(run.log) >= 1
    /\ run.startData.main[1] = CheckedRow(OrcidWellformed)
    /\ run.log[1].is_valid
    /\ run.log[1].groups = 2
    /\ fileData.main[1].publications_count = 2
    /\ fileData.main[1].publication_details = 1

\* C17: the Publication_Details table written at the end of a run is the
\* flattening, in row order, of the publication details stored in the rows
\* of the written main sheet.
C17_DetailsSheetIsFlattening ==
    (pc = "done" /\ run.save = "ok") =>
        fileData.pubs = StoredDetails(fileData.main, 1)

\* C18: when writing the dataset fails, the run returns failure and the
\* dataset file keeps its pre-run content.
C18_FailedWriteIsFatal ==
    (pc = "done" /\ run.save = "failed") =>
        /\ run.ret = <<FALSE>>
        /\ fileData = run.startData

\* a step of the running update that changes the dataset file
WritesFile == pc # "idle" /\ fileVars' # fileVars

\* C19: in any update run the dataset file is written at most once and
\* only after the loop over all researchers has finished; until that write
\* the file holds what it held when the run began.
C19_WrittenOnceAfterLoop ==
    /\ [](/\ run.writes <= 1
          /\ (run.op # "none" /\ run.save = "none") =>
                fileData = run.startData /\ fileExists = run.startExists)
    /\ [][WritesFile =>
            /\ pc \in {"su_loop", "po_loop"}
            /\ idx > Len(dfMain)
            /\ run.save = "none"]_vars

\* a full update of two researchers that fetched and then wrote the file
C19_Witness ==
    /\ pc = "done"
    /\ run.op = "smart_update"
    /\ run.changed = <<TRUE>>
    /\ Len(run.log) = 2
    /\ run.fetches >= 1
    /\ run.writes = 1
    /\ fileData # run.startData

\* C20: every smart_update run that started with the dataset file present
\* has produced the summary report when it ends.
C20_ReportAlwaysProduced ==
    (run.op = "smart_update" /\ run.startExists /\ pc = "done") => run.reported

(***************************************************************************)
(* Properties of identifier cleaning                                       *)
(***************************************************************************)
\* C24: the identifier extract_doi stores for a raw value has the same
\* clean_doi key as the raw value itself: a prefix is stripped only where
\* it is anchored at the start, by extract_doi as by clean_doi.
C24_ExtractKeepsKey ==
    (nDoi # Unset /\ xDoi # Unset) => clean_doi(xDoi) = nDoi

\* a key that begins with one of the prefixes clean_doi strips
StartsWithPrefix(key) ==
    \/ StartsWith(key, HttpsPrefix)
    \/ StartsWith(key, HttpPrefix)
    \/ StartsWith(key, DoiLabel)

\* C27 as claimed: clean_doi is idempotent, clean_doi(clean_doi(s)) =
\* clean_doi(s) for every s.
C27_CleanDoiIdempotent ==
    nDoi # Unset => clean_doi(nDoi) = nDoi

\* C27 as amended: the key clean_doi returns has no surrounding
\* whitespace, and clean_doi(clean_doi(s)) = clean_doi(s) for every s whose
\* key does not begin with a strippable prefix again.
C27_IdempotentOnPrefixFreeKeys ==
    nDoi # Unset =>
        /\ Strip(nDoi) = nDoi
        /\ ~StartsWithPrefix(nDoi) => clean_doi(nDoi) = nDoi

\* 'doi:' + ' A' + ' ' was cleaned to 'a', which clean_doi leaves as it is
C27_Witness ==
    /\ frags = <<DoiLabel, <<" ">>, <<"A">>, <<" ">> >>
    /\ nDoi = <<"a">>
    /\ clean_doi(nDoi) = nDoi

(***************************************************************************)
(* Properties of the fallback ladder and of the tie-break                  *)
(***************************************************************************)
\* C22: count_unique_publications never propagates an exception: wherever
\* the full algorithm or the identifier-only fallback fails, also before
\* the working copy exists, the call returns a result.
C22_NeverRaises ==
    result.done => ~result.raised

\* the number of distinct non-empty normalized identifiers of the input
DistinctIds == Cardinality({IdKey(i) : i \in 1..Len(records)} \ {<<>>})

\* C23: when the full algorithm fails, uniqueCount is the number of
\* distinct non-empty normalized identifiers and removedCount is
\* totalInput - uniqueCount; when that tier fails too, the result is
\* (totalInput, 0, the full input records).
C23_FallbackLadderValues ==
    (result.done /\ ~result.raised) =>
        /\ result.fault = "later" =>
              /\ result.total_unique = DistinctIds
              /\ result.total_shared_removed = Len(records) - DistinctIds
        /\ result.fault = "doi_clean" =>
              /\ result.total_unique = Len(records)
              /\ result.total_shared_removed = 0
              /\ result.unique_publications = [i \in 1..Len(records) |-> i]

\* the title-eligible survivors of the identifier pass
EligibleSurvivors == {i \in Range(result.df_no_doi_shared) : EligibleRow(i)}

\* C26: the unique records are a subsequence of the input in input
\* order; within each group of title-eligible survivors of the identifier
\* pass that have the same (title, venue, year) triple the earliest is the
\* one kept, and no two kept records share a triple.
C26_StableFirstOccurrence ==
    (result.done /\ result.fault = "none") =>
        LET kept == result.unique_publications
            keptRows == Range(kept)
            eligible == EligibleSurvivors
            triple == [i \in 1..Len(records) |-> TripleKey(i)]
        IN /\ keptRows \subseteq 1..Len(records)
           /\ \A k \in 1..(Len(kept) - 1) : kept[k] < kept[k + 1]
           /\ \A i \in eligible :
                 i \in keptRows <=>
                     \A j \in eligible : triple[j] = triple[i] => i <= j
           /\ \A i, j \in keptRows : i # j => triple[i] # triple[j]

\* three records, the first two with different identifiers and one triple,
\* the third with another triple: the first and the third are kept
C26_Witness ==
    /\ result.done /\ result.fault = "none"
    /\ Len(records) = 3
    /\ IdKey(1) # IdKey(2)
    /\ EligibleSurvivors = {1, 2, 3}
    /\ TripleKey(1) = TripleKey(2)
    /\ result.unique_publications = <<1, 3>>

\* rows i and j have different non-empty normalized identifiers
DifferentIds(i, j) ==
    IdKey(i) # <<>> /\ IdKey(j) # <<>> /\ IdKey(i) # IdKey(j)

\* C28: two records with different non-empty normalized identifiers are
\* never duplicates of each other: a title-eligible record, the first with
\* its identifier, stays among the unique records when every earlier
\* record with its triple has a different non-empty identifier.
C28_DifferentIdsNeverDuplicates ==
    (result.done /\ result.fault = "none") =>
        \A j \in 1..Len(records) :
            (/\ EligibleRow(j)
             /\ j = Min(IdGroup(j))
             /\ \A i \in 1..(j - 1) :
                   TripleKey(i) = TripleKey(j) => DifferentIds(i, j)) =>
                j \in Range(result.unique_publications)

\* C28, as the code has it: of two records with different non-empty
\* identifiers, each the first with its identifier, neither is removed by
\* the identifier pass; when both are title-eligible and have the same
\* (title, venue, year) triple the title pass removes the later one.
C28_DifferentIdsOnlyTitleDuplicates ==
    (result.done /\ result.fault = "none") =>
        LET id == [i \in 1..Len(records) |-> IdKey(i)]
            triple == [i \in 1..Len(records) |-> TripleKey(i)]
            eligible == {i \in 1..Len(records) : EligibleRow(i)}
            firstOfId == {i \in 1..Len(records) :
                            \A k \in 1..(i - 1) : id[k] # id[i]}
            survivors == Range(result.df_no_doi_shared)
            keptRows == Range(result.unique_publications)
        IN \A i, j \in firstOfId :
               (i < j /\ id[i] # <<>> /\ id[j] # <<>> /\ id[i] # id[j]) =>
                   /\ i \in survivors
                   /\ j \in survivors
                   /\ (i \in eligible /\ j \in eligible
                           /\ triple[i] = triple[j]) =>
                         j \notin keptRows

\* two eligible records with different identifiers and one triple: both
\* pass the identifier pass, the title pass removes the second
C28_Witness ==
    /\ result.done /\ result.fault = "none"
    /\ Len(records) = 2
    /\ DifferentIds(1, 2)
    /\ EligibleRow(1) /\ EligibleRow(2)
    /\ TripleKey(1) = TripleKey(2)
    /\ result.df_no_doi_shared = <<1, 2>>
    /\ result.unique_publications = <<1>>
    /\ result.title_shared_removed = 1

(***************************************************************************)
(* Frame and order properties of the updater                               *)
(***************************************************************************)
\* C29: a has_file_changed call made while a hash is stored leaves the
\* stored hash as it was, and with a file whose hash differs from the
\* stored one it returns true, on every repeated call.
C29_ReadOnlyWithStoredHash ==
    \A k \in 1..Len(hfcLog) :
        hfcLog[k].storedBefore # NoHash =>
            /\ hfcLog[k].storedAfter = hfcLog[k].storedBefore
            /\ (hfcLog[k].exists
                    /\ Md5(hfcLog[k].bytes) # hfcLog[k].storedBefore) =>
                  hfcLog[k].ret

\* C30: a smart_update run that has overwritten the dataset file made a
\* backup of it, with success, before.
C30_BackupBeforeOverwrite ==
    (run.op = "smart_update" /\ run.writes > 0) => run.backup = "ok"

(***************************************************************************)
(* Properties of extract_publication_details                               *)
(***************************************************************************)
\* the value a path of keys leads to in a document, Absent when a key of
\* the path is missing or a value on the way is no dict
RECURSIVE At(_, _)
At(value, path) ==
    IF path = <<>> THEN value
    ELSE IF value.t = "dict" /\ \E k \in 1..Len(value.v) : value.v[k][1] = Head(path)
         THEN At(value.v[CHOOSE k \in 1..Len(value.v) : value.v[k][1] = Head(path)][2],
                 Tail(path))
         ELSE Absent

\* the group has a non-empty work-summary list
HasSummaries(group) ==
    LET summaries == At(group, <<"work-summary">>)
    IN summaries.t = "list" /\ summaries.v # <<>>

\* the first summary of each group that has summaries, in group order
FirstSummaries ==
    LET with == SelectSeq(xGroups, HasSummaries)
    IN [k \in 1..Len(with) |-> Head(At(with[k], <<"work-summary">>).v)]

\* entry k of a list of external ids is typed 'doi' and has a value
UsableDoi(entries, k) ==
    /\ At(entries[k], <<"external-id-type">>) = Str(DoiType)
    /\ At(entries[k], <<"external-id-value">>).t = "str"
    /\ At(entries[k], <<"external-id-value">>).v # <<>>

\* the identifier a work summary gives: that of the first usable entry,
\* when the list is one and every entry before it is a dict
IdentifierOf(work) ==
    LET ids == At(work, <<"external-ids", "external-id">>)
        usable == IF ids.t = "list"
                  THEN {k \in 1..Len(ids.v) :
                           /\ UsableDoi(ids.v, k)
                           /\ \A j \in 1..k : ids.v[j].t = "dict"
                           /\ \A j \in 1..(k - 1) : ~UsableDoi(ids.v, j)}
                  ELSE {}
    IN IF usable = {} THEN Absent
       ELSE At(ids.v[CHOOSE k \in usable : TRUE], <<"external-id-value">>)

SummaryOf(k) == Head(At(xGroups[k], <<"work-summary">>).v)

\* group k has a DOI; group k has none, and a title of 15 characters
WithDoi(k) == IdentifierOf(SummaryOf(k)) # Absent
BareWithTitle(k) ==
    /\ IdentifierOf(SummaryOf(k)) = Absent
    /\ At(SummaryOf(k), <<"title", "title", "value">>).t = "str"
    /\ Len(At(SummaryOf(k), <<"title", "title", "value">>).v) = 15

\* the registry answered the request for researcher 1 with two work
\* groups, one with a DOI, the other without one and with a 15-character
\* title, that have different titles
ScenarioAnswer ==
    /\ Len(xGroups) = 2
    /\ run.log[1].called /\ run.log[1].is_valid
    /\ \/ WithDoi(1) /\ BareWithTitle(2)
       \/ WithDoi(2) /\ BareWithTitle(1)
    /\ At(SummaryOf(1), <<"title">>) # At(SummaryOf(2), <<"title">>)

\* C21: three researchers (an identifier of the right shape with the two
\* work groups of ScenarioAnswer, one of the wrong shape, one missing):
\* after the full update researcher 1 is valid with publications count 2,
\* researcher 2 invalid with count 0, researcher 3 as before, the details
\* table has 2 rows, and count_unique_publications on them gives
\* uniqueCount 2 and removedCount 0.
C21_EndToEnd ==
    (pc = "done" /\ result.fault = "none" /\ ScenarioAnswer) =>
        /\ dfMain[1].orcid_valid /\ dfMain[1].publications_count = 2
        /\ ~dfMain[2].orcid_valid /\ dfMain[2].publications_count = 0
        /\ dfMain[3] = run.startData.main[3]
        /\ Len(records) = 2
        /\ result.total_unique = 2
        /\ result.total_shared_removed = 0

====
